---- MODULE Spec2Model ----
(***************************************************************************)
(* Model of src/main.py: the PDN (debt load) calculator.                   *)
(*                                                                         *)
(*   - calculate_pdn, the ratio calculator;                                *)
(*   - try_load_from_local / save_local, the JSON snapshot of the wages;   *)
(*   - load_regions_data, the three-tier loader run once at import time;   *)
(*   - get_regions, form_page, calculate_pdn_form, the request handlers;   *)
(*   - fetch_from_rosstat_html, the HTML table parser.                     *)
(*                                                                         *)
(* Text is a sequence of one-character strings, so that strip, lower,      *)
(* replace, split, substring search and float() are computed and not       *)
(* assumed.  The Cyrillic literals of the source are written in Latin      *)
(* transliteration (the strings of the module are ASCII): okrug and        *)
(* rossiyskaya are the markers of line 119, iyul the month of line 104,    *)
(* region_token and subyekt the tokens of lines 61 and 65, zarplat and     *)
(* zarab those of line 67; the fallback names are those of lines 139-143.  *)
(*                                                                         *)
(* A float is a record [nan, v]: v counts thousandths, so that round(x, 2) *)
(* is a real rounding; nan is Python's float("nan").  Integers are kept    *)
(* within 32 bits.                                                         *)
(*                                                                         *)
(* The files are inputs: the sheet is absent, unreadable by pandas, or a   *)
(* frame of labels and rows; the snapshot is absent, not JSON, or a JSON   *)
(* object, and may be closed to reading; writing it succeeds, is refused   *)
(* by open(), or fails after the file was truncated.  A handler has no     *)
(* await in its body, so it is one step.                                   *)
(***************************************************************************)
EXTENDS Integers, Sequences, FiniteSets, TLC

(***************************************************************************)
(* Characters and text                                                     *)
(***************************************************************************)

\* U+202F NARROW NO-BREAK SPACE, the first character removed at line 74
NNBSP == "NNBSP"

Digits == <<"0", "1", "2", "3", "4", "5", "6", "7", "8", "9">>

Uppercase ==
  <<"A", "B", "C", "D", "E", "F", "G", "H", "I", "J", "K", "L", "M",
    "N", "O", "P", "Q", "R", "S", "T", "U", "V", "W", "X", "Y", "Z">>

Lowercase ==
  <<"a", "b", "c", "d", "e", "f", "g", "h", "i", "j", "k", "l", "m",
    "n", "o", "p", "q", "r", "s", "t", "u", "v", "w", "x", "y", "z">>

\* the characters of the model in code point order (what sorted() compares)
Alphabet ==
  <<" ", "+", ",", "-", ".">> \o Digits \o <<":">> \o Uppercase \o Lowercase
    \o <<NNBSP>>

CharSet == {Alphabet[i] : i \in 1..Len(Alphabet)}

Ord == [c \in CharSet |-> CHOOSE i \in 1..Len(Alphabet) : Alphabet[i] = c]

\* str.isspace(): both the space and U+202F are white space
Whitespace == {" ", NNBSP}

LowerOf ==
  [c \in CharSet |->
     IF \E i \in 1..Len(Uppercase) : Uppercase[i] = c
     THEN Lowercase[CHOOSE i \in 1..Len(Uppercase) : Uppercase[i] = c]
     ELSE c]

\* str.lower()
ToLower(s) == [i \in 1..Len(s) |-> LowerOf[s[i]]]

\* sub in s
Contains(s, sub) ==
  \E i \in 0..(Len(s) - Len(sub)) : SubSeq(s, i + 1, i + Len(sub)) = sub

\* str.strip()
Strip(s) ==
  LET keep == {i \in 1..Len(s) : s[i] \notin Whitespace}
  IN  IF keep = {} THEN <<>>
      ELSE SubSeq(s, CHOOSE i \in keep : \A j \in keep : i <= j,
                     CHOOSE i \in keep : \A j \in keep : i >= j)

RECURSIVE Replace(_, _, _)
\* str.replace(ch, rep) for a one-character ch
Replace(s, ch, rep) ==
  IF s = <<>> THEN <<>>
  ELSE (IF Head(s) = ch THEN rep ELSE <<Head(s)>>) \o Replace(Tail(s), ch, rep)

RECURSIVE Split(_, _)
\* str.split(sep) for a one-character sep: always at least one piece
Split(s, sep) ==
  IF \A i \in 1..Len(s) : s[i] # sep THEN <<s>>
  ELSE LET k == CHOOSE i \in 1..Len(s) :
                  s[i] = sep /\ \A j \in 1..(i - 1) : s[j] # sep
       IN  <<SubSeq(s, 1, k - 1)>> \o Split(SubSeq(s, k + 1, Len(s)), sep)

RECURSIVE Join(_, _)
\* sep.join(parts)
Join(parts, sep) ==
  IF parts = <<>> THEN <<>>
  ELSE IF Len(parts) = 1 THEN parts[1]
  ELSE parts[1] \o sep \o Join(Tail(parts), sep)

\* s < t for str: code point order, a proper prefix first
StrLess(s, t) ==
  \E k \in 1..(Len(t)) :
     /\ k <= Len(s) + 1
     /\ \A j \in 1..(k - 1) : s[j] = t[j]
     /\ (k = Len(s) + 1 \/ Ord[s[k]] < Ord[t[k]])

RECURSIVE SortedKeys(_)
\* sorted(keys)
SortedKeys(S) ==
  IF S = {} THEN <<>>
  ELSE LET m == CHOOSE x \in S : \A y \in S \ {x} : StrLess(x, y)
       IN  <<m>> \o SortedKeys(S \ {m})

(***************************************************************************)
(* Floats                                                                  *)
(***************************************************************************)

Num(n) == [nan |-> FALSE, v |-> n]

NaN == [nan |-> TRUE, v |-> 0]

\* the float of a literal with two decimals, given in hundredths
Hundredths(h) == Num(h * 10)

Abs(n) == IF n < 0 THEN 0 - n ELSE n

RECURSIVE Pow10(_)
Pow10(n) == IF n = 0 THEN 1 ELSE 10 * Pow10(n - 1)

\* n / d rounded to the nearest integer, a tie to the even one (n >= 0, d > 0)
RoundHalfEvenDiv(n, d) ==
  LET q == n \div d
      r == n % d
  IN  IF 2 * r < d THEN q
      ELSE IF 2 * r > d THEN q + 1
      ELSE IF q % 2 = 0 THEN q ELSE q + 1

RECURSIVE LongDiv(_, _, _, _)
\* k more decimal digits of a quotient q with remainder r over d
LongDiv(q, r, d, k) ==
  IF k = 0 THEN [q |-> q, r |-> r]
  ELSE LongDiv(q * 10 + ((r * 10) \div d), (r * 10) % d, d, k - 1)

\* n * 10^k / d rounded to the nearest integer, a tie to the even one
\* (n >= 0, d > 0), digit by digit so that no product leaves 32 bits
ScaledDiv(n, d, k) ==
  LET e == LongDiv(n \div d, n % d, d, k)
  IN  IF 2 * e.r < d THEN e.q
      ELSE IF 2 * e.r > d THEN e.q + 1
      ELSE IF e.q % 2 = 0 THEN e.q ELSE e.q + 1

\* round(x, 2)
Round2(x) ==
  IF x.nan THEN x
  ELSE Num((IF x.v < 0 THEN -1 ELSE 1) * RoundHalfEvenDiv(Abs(x.v), 10) * 10)

DigitSet == {Digits[i] : i \in 1..Len(Digits)}

DigitVal == [c \in DigitSet |-> (CHOOSE i \in 1..Len(Digits) : Digits[i] = c) - 1]

RECURSIVE IntOf(_)
IntOf(ds) ==
  IF ds = <<>> THEN 0
  ELSE IntOf(SubSeq(ds, 1, Len(ds) - 1)) * 10 + DigitVal[ds[Len(ds)]]

\* float(s): white space around is dropped, then an optional sign, then
\* "nan" in any case or digits with at most one point and at least one
\* digit.  Exponents, "inf" and "_" need characters no input of the model
\* holds.  [ok |-> FALSE] is the ValueError.
ParseFloat(s) ==
  LET t    == Strip(s)
      sgn  == IF t # <<>> /\ t[1] \in {"-", "+"} THEN 1 ELSE 0
      neg  == sgn = 1 /\ t[1] = "-"
      body == SubSeq(t, sgn + 1, Len(t))
      dots == {i \in 1..Len(body) : body[i] = "."}
      dot  == IF dots = {} THEN Len(body) + 1 ELSE CHOOSE i \in dots : TRUE
      ip   == SubSeq(body, 1, dot - 1)
      fp   == SubSeq(body, dot + 1, Len(body))
      frac == IF Len(fp) <= 3 THEN IntOf(fp) * Pow10(3 - Len(fp))
              ELSE RoundHalfEvenDiv(IntOf(fp), Pow10(Len(fp) - 3))
      mag  == IntOf(ip) * 1000 + frac
  IN  IF ToLower(body) = <<"n", "a", "n">> THEN [ok |-> TRUE, val |-> NaN]
      ELSE IF /\ Cardinality(dots) <= 1
              /\ Len(ip) + Len(fp) >= 1
              /\ \A i \in 1..Len(body) : i \in dots \/ body[i] \in DigitSet
           THEN [ok |-> TRUE, val |-> Num(IF neg THEN 0 - mag ELSE mag)]
           ELSE [ok |-> FALSE, val |-> NaN]

(***************************************************************************)
(* Literals of the source, and the texts of the inputs                     *)
(***************************************************************************)

okrug == <<"o", "k", "r", "u", "g">>

rossiyskaya == <<"r", "o", "s", "s", "i", "y", "s", "k", "a", "y", "a">>

iyul == <<"i", "y", "u", "l">>

region_token == <<"r", "e", "g", "i", "o", "n">>

subyekt == <<"s", "u", "b", "y", "e", "k", "t">>

zarplat == <<"z", "a", "r", "p", "l", "a", "t">>

zarab == <<"z", "a", "r", "a", "b">>

Belgorodskaya ==
  <<"B", "e", "l", "g", "o", "r", "o", "d", "s", "k", "a", "y", "a", " ",
    "o", "b", "l", "a", "s", "t">>

Vladimirskaya ==
  <<"V", "l", "a", "d", "i", "m", "i", "r", "s", "k", "a", "y", "a", " ",
    "o", "b", "l", "a", "s", "t">>

Nizhegorodskaya ==
  <<"N", "i", "z", "h", "e", "g", "o", "r", "o", "d", "s", "k", "a", "y", "a",
    " ", "o", "b", "l", "a", "s", "t">>

Moskva == <<"M", "o", "s", "k", "v", "a">>

Moskovskaya ==
  <<"M", "o", "s", "k", "o", "v", "s", "k", "a", "y", "a", " ",
    "o", "b", "l", "a", "s", "t">>

Tula == <<"T", "u", "l", "a">>

\* the fallback dictionary of load_regions_data
fallback ==
  [k \in {Belgorodskaya, Vladimirskaya, Nizhegorodskaya, Moskva, Moskovskaya} |->
     IF k = Belgorodskaya THEN Hundredths(7583400)
     ELSE IF k = Vladimirskaya THEN Hundredths(7324000)
     ELSE IF k = Nizhegorodskaya THEN Hundredths(8123000)
     ELSE IF k = Moskva THEN Hundredths(17859600)
     ELSE Hundredths(11581100)]

(***************************************************************************)
(* Tables: a data frame is its column labels and its rows of cells.  A     *)
(* cell is the text str() gives for it, or a missing value (pandas' NaN).  *)
(***************************************************************************)

Cell(s) == [na |-> FALSE, s |-> s]

NA == [na |-> TRUE, s |-> <<>>]

\* str(cell): a missing value prints as "nan"
Str(c) == IF c.na THEN <<"n", "a", "n">> ELSE c.s

\* pd.isna(x): a str is never missing
IsNaCell(c) == c.na

EmptyTable == <<>>

\* result[key] = value
Put(t, key, value) ==
  [k \in (DOMAIN t) \cup {key} |-> IF k = key THEN value ELSE t[k]]

(***************************************************************************)
(* calculate_pdn                                                           *)
(***************************************************************************)

RECURSIVE Sum(_)
\* sum(monthly_payments): a nan makes the sum nan
Sum(ps) ==
  IF ps = <<>> THEN Num(0)
  ELSE LET rest == Sum(Tail(ps))
       IN  IF Head(ps).nan \/ rest.nan THEN NaN ELSE Num(Head(ps).v + rest.v)

\* x <= 0 and x < n for floats: every comparison with nan is false
FloatLeZero(x) == ~x.nan /\ x.v <= 0

FloatLess(x, n) == ~x.nan /\ x.v < n * 1000

\* calculate_pdn with the guard written "< 0": an income of zero is let
\* through (a variant with a seeded fault, for testing the properties)
calculate_pdn_strict(monthly_income, monthly_payments) ==
  IF ~monthly_income.nan /\ monthly_income.v < 0
  THEN [raised |-> TRUE, val |-> NaN]
  ELSE [raised |-> FALSE, val |-> NaN]

\* calculate_pdn(monthly_income, monthly_payments): raised is the ValueError
calculate_pdn(monthly_income, monthly_payments) ==
  IF FloatLeZero(monthly_income) THEN [raised |-> TRUE, val |-> NaN]
  ELSE LET total_payments == Sum(monthly_payments)
           pdn == IF total_payments.nan \/ monthly_income.nan THEN NaN
                  ELSE Num((IF total_payments.v < 0 THEN -1 ELSE 1)
                           * ScaledDiv(Abs(total_payments.v),
                                       monthly_income.v, 5))
       IN  [raised |-> FALSE, val |-> Round2(pdn)]

(***************************************************************************)
(* State                                                                   *)
(***************************************************************************)

VARIABLES
  excel,          \* data/rosstat_data_regions.xlsx: [st, columns, rows]
  snapshot,       \* data/regions_wages.json: [st, doc]
  readable,       \* whether the process may open the snapshot for reading
  write_mode,     \* what opening the snapshot for writing does
  pc,             \* "import", "cache", "default", "serving", "crashed"
  REGION_WAGES,   \* the module-level table
  tiers,          \* the tiers load_regions_data has evaluated, in order
  excel_outcome,  \* how the spreadsheet tier ended
  loads,          \* calls of load_regions_data in this process
  response,       \* the last response of a request handler
  run,            \* the number of this process among the cold starts
  cold,           \* neither file existed when the first process started
  first_result,   \* what load_regions_data returned in the first process
  html_input,     \* what requests.get and pd.read_html give: [st, tables]
  fetch_pc,       \* "idle", "called", "done"
  fetch_result,   \* the return value of fetch_from_rosstat_html
  fetch_cols      \* per table whose header matched: labels, region_col, wage_col

vars ==
  <<excel, snapshot, readable, write_mode, pc, REGION_WAGES, tiers,
    excel_outcome, loads, response, run, cold, first_result,
    html_input, fetch_pc, fetch_result, fetch_cols>>

storage_vars == <<excel, snapshot, readable, write_mode>>

loader_vars == <<pc, REGION_WAGES, tiers, excel_outcome, loads>>

history_vars == <<run, cold, first_result>>

fetch_vars == <<html_input, fetch_pc, fetch_result, fetch_cols>>

None == [some |-> FALSE, val |-> <<>>]

Some(x) == [some |-> TRUE, val |-> x]

(***************************************************************************)
(* The snapshot: try_load_from_local and save_local                        *)
(***************************************************************************)

\* json.dump(data, f, ensure_ascii=False, indent=2): the members of the
\* object, each name with its number, names kept as they are
JsonDump(data) == {<<k, data[k]>> : k \in DOMAIN data}

\* json.load(f) of an object
JsonLoad(doc) ==
  [k \in {m[1] : m \in doc} |-> (CHOOSE m \in doc : m[1] = k)[2]]

Absent == [st |-> "absent", doc |-> {}]

Malformed == [st |-> "malformed", doc |-> {}]

File(doc) == [st |-> "ok", doc |-> doc]

\* try_load_from_local(): raised is the error of open() or of json.load()
try_load_from_local ==
  IF snapshot.st = "absent" THEN [raised |-> FALSE, local |-> None]
  ELSE IF ~readable \/ snapshot.st = "malformed"
       THEN [raised |-> TRUE, local |-> None]
       ELSE [raised |-> FALSE, local |-> Some(JsonLoad(snapshot.doc))]

\* save_local that reports success without writing (seeded fault)
save_local_unwritten(data) == [raised |-> FALSE, file |-> snapshot]

\* save_local(data): open(LOCAL_JSON, "w") fails and leaves the file as it
\* is ("denied"), or truncates the file and the write then fails
\* ("diskfull"), or the document is written
save_local(data) ==
  IF write_mode = "denied" THEN [raised |-> TRUE, file |-> snapshot]
  ELSE IF write_mode = "diskfull" THEN [raised |-> TRUE, file |-> Malformed]
  ELSE [raised |-> FALSE, file |-> File(JsonDump(data))]

(***************************************************************************)
(* load_regions_data                                                       *)
(***************************************************************************)

IsAggregate(name) ==
  Contains(ToLower(name), okrug) \/ Contains(ToLower(name), rossiyskaya)

\* lines 102-109: the first column naming July, else the last column
ExcelWageCol(columns) ==
  LET july == {i \in 1..Len(columns) : Contains(ToLower(columns[i]), iyul)}
  IN  IF july = {} THEN Len(columns)
      ELSE CHOOSE i \in july : \A j \in july : i <= j

\* lines 113-122: one row of the sheet
ExcelRow(result, row, region_col, wage_col) ==
  LET name == Strip(Str(row[region_col]))
      wage == row[wage_col]
      wage_value ==
        ParseFloat(Replace(Replace(Str(wage), " ", <<>>), ",", <<".">>))
  IN  IF IsNaCell(wage) THEN result
      ELSE IF ~wage_value.ok THEN result
      ELSE IF IsAggregate(name) THEN result
      ELSE Put(result, name, Round2(wage_value.val))

RECURSIVE ExcelRows(_, _, _, _)
\* lines 111-122: for _, row in df.iterrows()
ExcelRows(result, rows, region_col, wage_col) ==
  IF rows = <<>> THEN result
  ELSE ExcelRows(ExcelRow(result, Head(rows), region_col, wage_col),
                 Tail(rows), region_col, wage_col)

\* lines 97-122: raised is any exception of the try block before the save
\* (pd.read_excel on a broken file, df.columns[0] on a frame without columns)
ExcelParse(x) ==
  IF x.st = "corrupt" \/ x.columns = <<>>
  THEN [raised |-> TRUE, result |-> EmptyTable]
  ELSE [raised |-> FALSE,
        result |-> ExcelRows(EmptyTable, x.rows, 1, ExcelWageCol(x.columns))]

\* lines 91-130: the spreadsheet tier.  save_local is called inside the try
\* block, so its error is caught like any other and the tier falls through.
TrySpreadsheet ==
  /\ pc = "import"
  /\ loads' = loads + 1
  /\ tiers' = Append(tiers, "spreadsheet")
  /\ LET parsed == ExcelParse(excel)
         saved  == save_local(parsed.result)
     IN  IF excel.st = "absent"
         THEN /\ excel_outcome' = "absent"
              /\ pc' = "cache"
              /\ UNCHANGED <<snapshot, REGION_WAGES, first_result>>
         ELSE IF parsed.raised
         THEN /\ excel_outcome' = "raised"
              /\ pc' = "cache"
              /\ UNCHANGED <<snapshot, REGION_WAGES, first_result>>
         ELSE IF parsed.result = EmptyTable
         THEN /\ excel_outcome' = "empty"
              /\ pc' = "cache"
              /\ UNCHANGED <<snapshot, REGION_WAGES, first_result>>
         ELSE IF saved.raised
         THEN /\ excel_outcome' = "save_failed"
              /\ pc' = "cache"
              /\ snapshot' = saved.file
              /\ UNCHANGED <<REGION_WAGES, first_result>>
         ELSE /\ excel_outcome' = "saved"
              /\ pc' = "serving"
              /\ snapshot' = saved.file
              /\ REGION_WAGES' = parsed.result
              /\ first_result' =
                   IF run = 1 THEN Some(parsed.result) ELSE first_result
  /\ UNCHANGED <<excel, readable, write_mode, response, run, cold>>
  /\ UNCHANGED fetch_vars

\* the cache tier that never trusts what it read and goes on to the
\* defaults (seeded fault)
TryCacheIgnored ==
  /\ pc = "cache"
  /\ tiers' = Append(tiers, "cache")
  /\ pc' = IF try_load_from_local.raised THEN "crashed" ELSE "default"
  /\ UNCHANGED <<REGION_WAGES, first_result>>
  /\ UNCHANGED <<storage_vars, excel_outcome, loads, response, run, cold>>
  /\ UNCHANGED fetch_vars

\* lines 132-135: the cache tier.  An error of try_load_from_local is not
\* caught: it leaves load_regions_data and ends the import.
TryCache ==
  /\ pc = "cache"
  /\ tiers' = Append(tiers, "cache")
  /\ LET got == try_load_from_local
     IN  IF got.raised
         THEN /\ pc' = "crashed"
              /\ UNCHANGED <<REGION_WAGES, first_result>>
         ELSE IF got.local.some /\ got.local.val # EmptyTable
         THEN /\ pc' = "serving"
              /\ REGION_WAGES' = got.local.val
              /\ first_result' =
                   IF run = 1 THEN Some(got.local.val) ELSE first_result
         ELSE /\ pc' = "default"
              /\ UNCHANGED <<REGION_WAGES, first_result>>
  /\ UNCHANGED <<storage_vars, excel_outcome, loads, response, run, cold>>
  /\ UNCHANGED fetch_vars

\* lines 137-146: the default tier.  An error of save_local is not caught.
UseDefault ==
  /\ pc = "default"
  /\ tiers' = Append(tiers, "default")
  /\ LET saved == save_local(fallback)
     IN  /\ snapshot' = saved.file
         /\ IF saved.raised
            THEN /\ pc' = "crashed"
                 /\ UNCHANGED <<REGION_WAGES, first_result>>
            ELSE /\ pc' = "serving"
                 /\ REGION_WAGES' = fallback
                 /\ first_result' =
                      IF run = 1 THEN Some(fallback) ELSE first_result
  /\ UNCHANGED <<excel, readable, write_mode, excel_outcome, loads, response,
                 run, cold>>
  /\ UNCHANGED fetch_vars

(***************************************************************************)
(* The request handlers                                                    *)
(***************************************************************************)

NoResponse ==
  [kind |-> "none", items |-> <<>>, regions |-> <<>>, pdn |-> NaN,
   status |-> "", selected_region |-> None, income |-> NaN]

\* GET /regions: the rows of the table sorted by name
get_regions ==
  LET names == SortedKeys(DOMAIN REGION_WAGES)
  IN  [NoResponse EXCEPT
         !.kind = "regions",
         !.items = [i \in 1..Len(names) |->
                      [region |-> names[i], wage |-> REGION_WAGES[names[i]]]]]

\* GET /: the empty form
form_page ==
  [NoResponse EXCEPT
     !.kind = "form", !.regions = SortedKeys(DOMAIN REGION_WAGES)]

\* lines 191-196: the band of a ratio
StatusOf(pdn_value) ==
  IF FloatLess(pdn_value, 50) THEN "low"
  ELSE IF FloatLess(pdn_value, 80) THEN "medium"
  ELSE "high"

\* POST /: status "float" is the ValueError of float(), "income" the one of
\* calculate_pdn; both end in the error page
calculate_pdn_form(income, payments, region) ==
  LET used   == IF region.some /\ region.val # <<>>
                    /\ region.val \in DOMAIN REGION_WAGES
                THEN REGION_WAGES[region.val] ELSE income
      pieces == SelectSeq(Split(payments, ","), LAMBDA q : Strip(q) # <<>>)
      parsed == [i \in 1..Len(pieces) |-> ParseFloat(Strip(pieces[i]))]
      payments_list == [i \in 1..Len(pieces) |-> parsed[i].val]
      got    == calculate_pdn(used, payments_list)
      failed == [NoResponse EXCEPT
                   !.kind = "error",
                   !.regions = SortedKeys(DOMAIN REGION_WAGES)]
  IN  IF \E i \in 1..Len(pieces) : ~parsed[i].ok
      THEN [failed EXCEPT !.status = "float"]
      ELSE IF got.raised
      THEN [failed EXCEPT !.status = "income"]
      ELSE [NoResponse EXCEPT
              !.kind = "result",
              !.pdn = got.val,
              !.status = StatusOf(got.val),
              !.regions = SortedKeys(DOMAIN REGION_WAGES),
              !.selected_region = region,
              !.income = used]

IncomeInputs == {Hundredths(-500), Num(0), Hundredths(100000)}

PaymentInputs ==
  { <<>>,
    <<"5", "0", "0">>,
    <<"3", "0", "0", ",", " ", "4", "9", "9", ".", "9">>,
    <<"8", "0", "0", ",">>,
    <<"a", "b", "c">> }

RegionInputs == {None, Some(Moskva)}

GetRegions ==
  /\ pc = "serving"
  /\ response' = get_regions
  /\ UNCHANGED <<storage_vars, loader_vars, history_vars, fetch_vars>>

FormPage ==
  /\ pc = "serving"
  /\ response' = form_page
  /\ UNCHANGED <<storage_vars, loader_vars, history_vars, fetch_vars>>

\* POST / that also stores the submitted income under the chosen region
\* (seeded fault)
CalculatePdnFormStores ==
  /\ pc = "serving"
  /\ \E income \in IncomeInputs, payments \in PaymentInputs,
        region \in RegionInputs :
          /\ response' = calculate_pdn_form(income, payments, region)
          /\ REGION_WAGES' =
               IF region.some THEN Put(REGION_WAGES, region.val, income)
               ELSE REGION_WAGES
  /\ UNCHANGED <<storage_vars, pc, tiers, excel_outcome, loads, history_vars,
                 fetch_vars>>

CalculatePdnForm ==
  /\ pc = "serving"
  /\ \E income \in IncomeInputs, payments \in PaymentInputs,
        region \in RegionInputs :
          response' = calculate_pdn_form(income, payments, region)
  /\ UNCHANGED <<storage_vars, loader_vars, history_vars, fetch_vars>>

(***************************************************************************)
(* fetch_from_rosstat_html                                                 *)
(***************************************************************************)

IsRegionHeader(h) ==
  Contains(ToLower(h), region_token) \/ Contains(ToLower(h), subyekt)

IsWageHeader(h) ==
  Contains(ToLower(h), zarplat) \/ Contains(ToLower(h), zarab)

RECURSIVE ScanColumnsFirst(_, _, _, _)
\* the loop with a break after the first match of each kind (seeded fault)
ScanColumnsFirst(columns, i, region_col, wage_col) ==
  IF i > Len(columns) THEN [region_col |-> region_col, wage_col |-> wage_col]
  ELSE ScanColumnsFirst(columns, i + 1,
         IF region_col = 0 /\ IsRegionHeader(columns[i]) THEN i ELSE region_col,
         IF wage_col = 0 /\ IsWageHeader(columns[i]) THEN i ELSE wage_col)

RECURSIVE ScanColumns(_, _, _, _)
\* lines 62-68: the loop over df.columns from column i on; a later match
\* overwrites an earlier one (0 is None)
ScanColumns(columns, i, region_col, wage_col) ==
  IF i > Len(columns) THEN [region_col |-> region_col, wage_col |-> wage_col]
  ELSE ScanColumns(columns, i + 1,
                   IF IsRegionHeader(columns[i]) THEN i ELSE region_col,
                   IF IsWageHeader(columns[i]) THEN i ELSE wage_col)

\* lines 60-61: the test on the joined header
HeaderMatches(columns) ==
  LET cols == ToLower(Join(columns, <<" ">>))
  IN  Contains(cols, region_token) \/ Contains(cols, subyekt)

\* lines 73-77: one row of the table; a float() error skips the row
HtmlRow(result, row, region_col, wage_col) ==
  LET w == ParseFloat(Replace(Replace(Replace(Str(row[wage_col]),
                        NNBSP, <<>>), " ", <<>>), ",", <<".">>))
  IN  IF ~w.ok THEN result
      ELSE Put(result, Strip(Str(row[region_col])), Round2(w.val))

RECURSIVE HtmlRows(_, _, _, _)
HtmlRows(result, rows, region_col, wage_col) ==
  IF rows = <<>> THEN result
  ELSE HtmlRows(HtmlRow(result, Head(rows), region_col, wage_col),
                Tail(rows), region_col, wage_col)

RECURSIVE ScanTables(_, _)
\* lines 59-79: the loop over the tables; seen collects, for each table whose
\* header matched, its labels and the columns chosen
ScanTables(tables, seen) ==
  IF tables = <<>> THEN [result |-> None, cols |-> seen]
  ELSE LET df     == Head(tables)
           found  == ScanColumns(df.columns, 1, 0, 0)
           chosen == [columns |-> df.columns, region_col |-> found.region_col,
                      wage_col |-> found.wage_col]
           result == HtmlRows(EmptyTable, df.rows,
                              chosen.region_col, chosen.wage_col)
       IN  IF ~HeaderMatches(df.columns) THEN ScanTables(Tail(tables), seen)
           ELSE IF chosen.region_col = 0 \/ chosen.wage_col = 0
           THEN ScanTables(Tail(tables), Append(seen, chosen))
           ELSE IF result # EmptyTable
           THEN [result |-> Some(result), cols |-> Append(seen, chosen)]
           ELSE ScanTables(Tail(tables), Append(seen, chosen))

\* lines 55-82: a failed request, a bad status or a page without tables
\* raises inside the try block and gives None
fetch_from_rosstat_html(page) ==
  IF page.st = "error" \/ page.tables = <<>>
  THEN [result |-> None, cols |-> <<>>]
  ELSE ScanTables(page.tables, <<>>)

FetchFromRosstatHtml ==
  /\ fetch_pc = "called"
  /\ LET got == fetch_from_rosstat_html(html_input)
     IN  /\ fetch_result' = got.result
         /\ fetch_cols' = got.cols
  /\ fetch_pc' = "done"
  /\ UNCHANGED <<html_input, storage_vars, loader_vars, history_vars, response>>

(***************************************************************************)
(* Inputs: the files found at start, the page fetched                      *)
(***************************************************************************)

\* rows of a sheet or of a page, tables of a page, processes started
MaxRows == 2

MaxTables == 2

MaxRuns == 2

SeqsUpTo(S, n) == UNION {[1..k -> S] : k \in 0..n}

Unnamed0 == <<"U", "n", "n", "a", "m", "e", "d", ":", " ", "0">>

\* July is the second column and is named again in the third; no July
ExcelHeaders ==
  { <<Unnamed0, <<"I", "y", "u", "l">>,
      <<"y", "a", "n", "v", "a", "r", "-", "i", "y", "u", "l">>>>,
    <<Unnamed0, <<"m", "a", "y">>, <<"i", "y", "u", "n">>>> }

\* each row reads differently under the two headers: the wage is the second
\* cell when July is named and the third when it is not
ExcelRowInputs ==
  { <<Cell(<<" ", "T", "u", "l", "a", " ">>),
      Cell(<<"1", "2", " ", "3", "4", "5", ",", "6", "7", "8">>),
      Cell(<<"1", "0", "0", ".", "0">>)>>,
    <<Cell(<<"Y", "U", "Z", "H", "N", "Y", "Y", " ", "O", "K", "R", "U", "G">>),
      Cell(<<"5">>), Cell(<<"6">>)>>,
    <<Cell(<<"R", "o", "s", "s", "i", "y", "s", "k", "a", "y", "a", " ",
             "F", "e", "d", "e", "r", "a", "t", "s", "i", "y", "a">>),
      Cell(<<"7">>), NA>>,
    <<NA, Cell(<<"9">>), Cell(<<"a", "b", "c">>)>>,
    <<Cell(<<" ", " ">>), Cell(<<"3">>), Cell(<<"4">>)>> }

ExcelInputs ==
  {[st |-> "absent", columns |-> <<>>, rows |-> <<>>],
   [st |-> "corrupt", columns |-> <<>>, rows |-> <<>>],
   [st |-> "ok", columns |-> <<>>, rows |-> <<>>]}
  \cup {[st |-> "ok", columns |-> h, rows |-> r] :
          h \in ExcelHeaders, r \in SeqsUpTo(ExcelRowInputs, MaxRows)}

\* the snapshot and whether it may be read: snapshots a run of the program
\* leaves, a broken one, an empty object, one the process may not read
StorageInputs ==
  {<<f, TRUE>> :
     f \in {Absent, Malformed, File({}), File(JsonDump(fallback)),
            File(JsonDump(Put(EmptyTable, Tula, Hundredths(6000050))))}}
  \cup {<<File(JsonDump(fallback)), FALSE>>}

WriteModes == {"ok", "denied", "diskfull"}

HtmlHeaders ==
  { <<<<"R", "e", "g", "i", "o", "n">>,
      <<"Z", "a", "r", "p", "l", "a", "t", "a">>,
      <<"Z", "a", "r", "a", "b", "o", "t", "o", "k">>>>,
    <<<<"S", "u", "b", "y", "e", "k", "t", " ", "R", "F">>,
      <<"R", "e", "g", "i", "o", "n">>,
      <<"Z", "a", "r", "p", "l", "a", "t", "a">>>>,
    <<<<"S", "u", "b", "y", "e", "k", "t">>,
      <<"I", "y", "u", "l">>, <<"M", "a", "y">>>>,
    <<<<"G", "o", "d">>,
      <<"Z", "a", "r", "p", "l", "a", "t", "a">>, <<"M", "a", "y">>>> }

HtmlRowInputs ==
  { <<>>,
    <<<<Cell(<<" ", "T", "u", "l", "a", " ">>), Cell(<<"1", "0", "0">>),
        Cell(<<"1", "2", NNBSP, "3", "4", "5", ",", "6", "7">>)>>>>,
    <<<<Cell(<<"Y", "u", "z", "h", "n", "y", "y", " ", "o", "k", "r", "u", "g">>),
        Cell(<<"O", "m", "s", "k">>), Cell(<<"5">>)>>,
      <<Cell(Tula), Cell(<<"7">>), Cell(<<"8">>)>>>>,
    <<<<NA, Cell(<<"7">>), Cell(<<"a", "b", "c">>)>>,
      <<Cell(<<"O", "m", "s", "k">>), Cell(<<"9">>), NA>>>> }

HtmlTables == {[columns |-> h, rows |-> r] : h \in HtmlHeaders, r \in HtmlRowInputs}

NoPage == [st |-> "error", tables |-> <<>>]

HtmlInputs ==
  {NoPage} \cup {[st |-> "ok", tables |-> t] : t \in SeqsUpTo(HtmlTables, MaxTables)}

(***************************************************************************)
(* The program: the import runs load_regions_data, then requests are       *)
(* served.  fetch_from_rosstat_html is called by nothing in the program.   *)
(***************************************************************************)

Init ==
  /\ excel \in ExcelInputs
  /\ \E st \in StorageInputs : snapshot = st[1] /\ readable = st[2]
  /\ write_mode \in WriteModes
  /\ pc = "import"
  /\ REGION_WAGES = EmptyTable
  /\ tiers = <<>>
  /\ excel_outcome = "none"
  /\ loads = 0
  /\ response = NoResponse
  /\ run = 1
  /\ cold = (excel.st = "absent" /\ snapshot.st = "absent")
  /\ first_result = None
  /\ html_input = NoPage
  /\ fetch_pc = "idle"
  /\ fetch_result = None
  /\ fetch_cols = <<>>

Next ==
  \/ TrySpreadsheet
  \/ TryCache
  \/ UseDefault
  \/ GetRegions
  \/ FormPage
  \/ CalculatePdnForm

Spec == Init /\ [][Next]_vars

\* the loader over cold starts: the process ends, by the crash or by being
\* stopped, and is started again on the same files
Restart ==
  /\ pc \in {"serving", "crashed"}
  /\ run < MaxRuns
  /\ run' = run + 1
  /\ pc' = "import"
  /\ REGION_WAGES' = EmptyTable
  /\ tiers' = <<>>
  /\ excel_outcome' = "none"
  /\ loads' = 0
  /\ response' = NoResponse
  /\ UNCHANGED <<storage_vars, cold, first_result, fetch_vars>>

NextRestart ==
  \/ TrySpreadsheet
  \/ TryCache
  \/ UseDefault
  \/ Restart

SpecRestart == Init /\ [][NextRestart]_vars

\* fetch_from_rosstat_html applied to a page
InitFetch ==
  /\ excel = [st |-> "absent", columns |-> <<>>, rows |-> <<>>]
  /\ snapshot = Absent
  /\ readable = TRUE
  /\ write_mode = "ok"
  /\ pc = "import"
  /\ REGION_WAGES = EmptyTable
  /\ tiers = <<>>
  /\ excel_outcome = "none"
  /\ loads = 0
  /\ response = NoResponse
  /\ run = 1
  /\ cold = TRUE
  /\ first_result = None
  /\ html_input \in HtmlInputs
  /\ fetch_pc = "called"
  /\ fetch_result = None
  /\ fetch_cols = <<>>

NextFetch == FetchFromRosstatHtml

SpecFetch == InitFetch /\ [][NextFetch]_vars

(***************************************************************************)
(* Properties                                                              *)
(***************************************************************************)

TierOrder == <<"spreadsheet", "cache", "default">>

Returned == pc = "serving"

Ended == pc \in {"serving", "crashed"}

\* C1: load_regions_data evaluates spreadsheet, cache, default in this order,
\* each at most once; the cache tier is consulted only when the spreadsheet
\* file is absent, raised during parsing or gave an empty mapping; the default
\* tier only when the cache tier gave nothing; no tier is evaluated after an
\* earlier one succeeded.
C1_TiersInOrderFirstSuccessWins ==
  /\ Len(tiers) <= Len(TierOrder)
  /\ tiers = SubSeq(TierOrder, 1, Len(tiers))
  /\ Len(tiers) >= 2 => excel_outcome \in {"absent", "raised", "empty"}
  /\ pc = "default" =>
       /\ ~try_load_from_local.raised
       /\ try_load_from_local.local \in {None, Some(EmptyTable)}
  /\ Returned /\ excel_outcome = "saved" => tiers = <<"spreadsheet">>

\* C2: whatever the spreadsheet, the snapshot and the write permission are,
\* load_regions_data returns a table: no error escapes it.
C2_LoaderNeverCrashes == pc # "crashed"

\* C3: with no spreadsheet and no snapshot, the first call returns exactly
\* the five defaults and writes them to the snapshot; the second call (still
\* no spreadsheet) takes the cache tier and returns an equal mapping.
C3_ColdStartThenCache ==
  cold /\ Ended =>
    /\ Returned
    /\ run = 1 =>
         /\ tiers = TierOrder
         /\ REGION_WAGES = fallback
         /\ Cardinality(DOMAIN REGION_WAGES) = 5
         /\ snapshot = File({<<k, fallback[k]>> : k \in DOMAIN fallback})
    /\ run = 2 =>
         /\ tiers = <<"spreadsheet", "cache">>
         /\ first_result = Some(fallback)
         /\ REGION_WAGES = first_result.val

\* C3 on storage that can be written: the same statement holds there.
C3_OnWritableStorage == write_mode = "ok" => C3_ColdStartThenCache

\* C4 as stated: when the cache tier reads any non-null mapping, the loader
\* returns exactly it and the snapshot stays as it is.
C4_AnyCachedMappingReturned ==
  [][pc = "cache" /\ ~try_load_from_local.raised
       /\ try_load_from_local.local.some
     => /\ pc' = "serving"
        /\ DOMAIN REGION_WAGES' = {m[1] : m \in snapshot.doc}
        /\ \A m \in snapshot.doc : REGION_WAGES'[m[1]] = m[2]
        /\ snapshot' = snapshot]_vars

\* C4 amended: when the cache tier reads a non-null mapping that is not
\* empty, the loader returns exactly it and the snapshot stays as it is.
C4_NonEmptyCachedMappingReturned ==
  [][pc = "cache" /\ ~try_load_from_local.raised
       /\ try_load_from_local.local.some
       /\ snapshot.doc # {}
     => /\ pc' = "serving"
        /\ DOMAIN REGION_WAGES' = {m[1] : m \in snapshot.doc}
        /\ \A m \in snapshot.doc : REGION_WAGES'[m[1]] = m[2]
        /\ snapshot' = snapshot]_vars

\* the cache tier has returned a table after the spreadsheet tier failed
C4_Witness ==
  /\ Returned
  /\ tiers = <<"spreadsheet", "cache">>
  /\ excel_outcome = "raised"
  /\ REGION_WAGES # EmptyTable

\* C5: every key of a returned table is non-empty after trimming and holds
\* no aggregate marker (okrug, rossiyskaya, in any case).
C5_WageTableInvariant ==
  Returned =>
    \A k \in DOMAIN REGION_WAGES :
       /\ Strip(k) # <<>>
       /\ ~Contains(ToLower(k), okrug)
       /\ ~Contains(ToLower(k), rossiyskaya)

\* the income the form handler passes to calculate_pdn
UsedIncome(income, region) ==
  IF region.some /\ region.val # <<>> /\ region.val \in DOMAIN REGION_WAGES
  THEN REGION_WAGES[region.val] ELSE income

\* C6: calculate_pdn fails for every income <= 0 whatever the payments are
\* and never for an income > 0; in the form handler the failure becomes the
\* error page of that request, and the table and the snapshot stay as they
\* are.
C6_InvalidIncomeIsRequestScoped ==
  /\ [](Returned =>
         \A income \in IncomeInputs, payments \in PaymentInputs,
            region \in RegionInputs :
              LET used == UsedIncome(income, region)
                  page == calculate_pdn_form(income, payments, region)
              IN  page.status # "float" =>
                    /\ ~used.nan /\ used.v <= 0 =>
                         page.kind = "error" /\ page.status = "income"
                    /\ ~used.nan /\ used.v > 0 =>
                         page.kind = "result" /\ page.income = used)
  /\ [][Returned /\ response'.kind = "error"
          => /\ REGION_WAGES' = REGION_WAGES
             /\ snapshot' = snapshot
             /\ pc' = "serving"]_vars

\* the form handler has answered a request whose income was not positive
C6_Witness ==
  Returned /\ response.kind = "error" /\ response.status = "income"

\* C7: once load_regions_data has returned, the table stays equal to what it
\* returned through every request, and the loader does not run again.
C7_TableFrozenAfterStartup ==
  /\ loads <= 1
  /\ Returned => loads = 1 /\ first_result = Some(REGION_WAGES)

\* a request with a region override has been answered
C7_Witness ==
  /\ Returned
  /\ response.kind = "result"
  /\ response.selected_region = Some(Moskva)
  /\ Moskva \in DOMAIN REGION_WAGES
  /\ response.income = REGION_WAGES[Moskva]

\* the columns of a table whose header holds a region token, a wage token
RegionHeaders(cols) == {j \in 1..Len(cols) : IsRegionHeader(cols[j])}

WageHeaders(cols) == {j \in 1..Len(cols) : IsWageHeader(cols[j])}

\* c is the least of hits (0: hits is empty)
IsFirstOf(hits, c) ==
  IF hits = {} THEN c = 0 ELSE c \in hits /\ \A j \in hits : c <= j

\* c is the greatest of hits (0: hits is empty)
IsLastOf(hits, c) ==
  IF hits = {} THEN c = 0 ELSE c \in hits /\ \A j \in hits : c >= j

\* C8 as stated: in the HTML parser the region column is the first header
\* with a region token and the wage column the first with a wage token.
C8_FirstMatchingColumnWins ==
  fetch_pc = "done" =>
    \A i \in 1..Len(fetch_cols) :
       /\ IsFirstOf(RegionHeaders(fetch_cols[i].columns), fetch_cols[i].region_col)
       /\ IsFirstOf(WageHeaders(fetch_cols[i].columns), fetch_cols[i].wage_col)

\* C8 amended: in the HTML parser the region column is the last header with
\* a region token and the wage column the last with a wage token.
C8_LastMatchingColumnWins ==
  fetch_pc = "done" =>
    \A i \in 1..Len(fetch_cols) :
       /\ IsLastOf(RegionHeaders(fetch_cols[i].columns), fetch_cols[i].region_col)
       /\ IsLastOf(WageHeaders(fetch_cols[i].columns), fetch_cols[i].wage_col)

\* the parser has returned the rows of a table with two wage headers
C8_Witness ==
  /\ fetch_pc = "done"
  /\ fetch_result.some
  /\ \E i \in 1..Len(fetch_cols) :
        Cardinality(WageHeaders(fetch_cols[i].columns)) >= 2

\* C9: the mapping the HTML parser returns holds no name with an aggregate
\* marker and no blank name.
C9_HtmlResultHasNoAggregateRows ==
  fetch_pc = "done" /\ fetch_result.some =>
    \A k \in DOMAIN fetch_result.val :
       /\ Strip(k) # <<>>
       /\ ~Contains(ToLower(k), okrug)
       /\ ~Contains(ToLower(k), rossiyskaya)

\* C10: whenever load_regions_data has returned, the snapshot's content is
\* the returned table, whichever tier produced it.
C10_SnapshotEqualsReturnedTable ==
  Returned =>
    /\ snapshot.st = "ok"
    /\ snapshot.doc = {<<k, REGION_WAGES[k]>> : k \in DOMAIN REGION_WAGES}

\* the spreadsheet tier has produced and saved the table
C10_Witness ==
  Returned /\ excel_outcome = "saved" /\ Cardinality(DOMAIN REGION_WAGES) >= 2

====
